---- MODULE Spec2Model ----
(***************************************************************************)
(* A model of skills_ml.evaluation.annotators.BratExperiment: one          *)
(* experiment directory on S3, the experiment object of one process, and   *)
(* its operations start, add_user and add_allocation.                      *)
(*                                                                         *)
(* Python dicts are functions whose DOMAIN is the set of keys; the         *)
(* insertion-ordered dict metadata['units'] is a sequence of               *)
(* [name, members] records in insertion order.  The unit name 'unit_k' is  *)
(* the integer k, a user name is an integer of Users.                      *)
(***************************************************************************)
EXTENDS Integers, Sequences, FiniteSets, TLC

\* Bounds of the model.
NumUsers == 2
MaxItems == 2
MaxUnitSize == 1
MaxCoverage == 2
MaxFault == 2
\* Bounds of the specification of start alone.
MaxSampleSize == 5
MaxLimit == 3
\* Bound of the specification of one object with units of several postings:
\* the latest blob-store call of add_allocation that may fail.
MaxCopyFault == 3

\* unit_to_allocate = None
NoUnit == -1
\* the id of the first job posting of the sample the tests build
FirstPostingId == 100

Users == 1..NumUsers
Passwords == {"pass", "password"}

VARIABLES
    metadata,        \* self.metadata: the in-memory dict of the experiment object
    user_pw_store,   \* self.user_pw_store: the in-memory dict of the experiment object
    s3_metadata,     \* <experiment_path>/metadata.json as last saved
    s3_user_pws,     \* <experiment_path>/user-pws.json as last saved
    s3,              \* the keys under <experiment_path>/brat_config
    last             \* the last call on the experiment object and how it ended

vars == <<metadata, user_pw_store, s3_metadata, s3_user_pws, s3, last>>

EmptyDict == [k \in {} |-> 0]

\* d[k] = v on a dict
DictSet(d, k, v) == (k :> v) @@ d

----------------------------------------------------------------------------
\* Paths and keys of the blob store.

\* unit_path(unit_name): data_path/.unit_name
unit_path(unit_name) == [owner |-> 0, unit |-> unit_name]

\* allocation_path(user_name, unit_name): data_path/.user_name/unit_name
allocation_path(user_name, unit_name) == [owner |-> user_name, unit |-> unit_name]

\* the key dir/<posting_key>.<ext>
FileKey(dir, posting_key, ext) ==
    [owner |-> dir.owner, unit |-> dir.unit, posting_key |-> posting_key, ext |-> ext]

\* the three configuration files under brat_config_path
ConfigKeys ==
    { [owner |-> 0, unit |-> NoUnit, posting_key |-> 0, ext |-> e] :
        e \in {"annotation.conf", "kb_shortcuts.conf", "visual.conf"} }

\* the position of a key in a listing: keys are listed in lexical order
FileRank(key) == 2 * key.posting_key + (IF key.ext = "ann" THEN 0 ELSE 1)

\* s3.ls(dir): the keys under dir, in lexical order
RECURSIVE SortKeys(_)
SortKeys(keys) ==
    IF keys = {} THEN <<>>
    ELSE LET first == CHOOSE k \in keys : \A o \in keys : FileRank(k) <= FileRank(o)
         IN <<first>> \o SortKeys(keys \ {first})

ls(store, dir) ==
    SortKeys({k \in store : k.owner = dir.owner /\ k.unit = dir.unit})

\* source_key.replace(source_dir, dest_dir)
replace(source_key, dest_dir) ==
    FileKey(dest_dir, source_key.posting_key, source_key.ext)

----------------------------------------------------------------------------
\* start: dividing the sample into units.

\* the sample: n job postings, in order
Sample(n) == [i \in 1..n |-> FirstPostingId + i - 1]

\* Batch(sample, limit): consecutive groups of limit postings, the last one shorter
RECURSIVE Batch(_, _)
Batch(sample, limit) ==
    IF Len(sample) = 0 THEN <<>>
    ELSE IF Len(sample) <= limit THEN <<sample>>
    ELSE <<SubSeq(sample, 1, limit)>> \o Batch(SubSeq(sample, limit + 1, Len(sample)), limit)

\* a faulty loop: a group shorter than limit makes no unit
MakeUnits_full_only(sample, limit) ==
    LET all == Batch(sample, limit)
        batches == SubSeq(all, 1, Len(sample) \div limit)
    IN [b \in 1..Len(batches) |->
          [name |-> b - 1,
           members |-> [j \in 1..Len(batches[b]) |-> <<j - 1, batches[b][j]>>]]]

\* a faulty loop: posting_key counts over the whole sample, not within the unit
MakeUnits_global_key(sample, limit) ==
    LET batches == Batch(sample, limit)
    IN [b \in 1..Len(batches) |->
          [name |-> b - 1,
           members |-> [j \in 1..Len(batches[b]) |->
                          <<(b - 1) * limit + j - 1, batches[b][j]>>]]]

\* metadata['units'] after the loop over enumerate(Batch(...))
MakeUnits(sample, limit) ==
    LET batches == Batch(sample, limit)
    IN [b \in 1..Len(batches) |->
          [name |-> b - 1,
           members |-> [j \in 1..Len(batches[b]) |-> <<j - 1, batches[b][j]>>]]]

\* the .txt and .ann keys written for the units
UnitKeys(units) ==
    UNION { { FileKey(unit_path(units[b].name), units[b].members[j][1], ext) :
                j \in 1..Len(units[b].members), ext \in {"txt", "ann"} } :
            b \in 1..Len(units) }

\* start(sample, entities_with_shortcuts, minimum_annotations_per_posting,
\*       max_postings_per_allocation): the metadata it leaves in memory
start_metadata(md, sample, minimum, limit) ==
    DictSet(DictSet(DictSet(md,
        "minimum_annotations_per_posting", minimum),
        "max_postings_per_allocation", limit),
        "units", MakeUnits(sample, limit))

----------------------------------------------------------------------------
\* add_allocation: choosing the unit.

Range(seq) == { seq[i] : i \in 1..Len(seq) }

Min(S) == CHOOSE x \in S : \A y \in S : x <= y

\* a faulty needs_allocation: '<=' for '<'
needs_allocation_le(md, unit_name) ==
    Cardinality({ u \in DOMAIN md["allocations"] :
                    unit_name \in Range(md["allocations"][u]) })
        <= md["minimum_annotations_per_posting"]

\* needs_allocation(unit_name)
needs_allocation(md, unit_name) ==
    Cardinality({ u \in DOMAIN md["allocations"] :
                    unit_name \in Range(md["allocations"][u]) })
        < md["minimum_annotations_per_posting"]

\* 'allocations' and the user's list are created when they are missing
init_allocations(md, user_name) ==
    LET md1 == IF "allocations" \notin DOMAIN md
               THEN DictSet(md, "allocations", EmptyDict) ELSE md
    IN IF user_name \notin DOMAIN md1["allocations"]
       THEN DictSet(md1, "allocations", DictSet(md1["allocations"], user_name, <<>>))
       ELSE md1

\* next(...) over the units in order: the first position of positions, or None
next_unit(units, positions) ==
    IF positions = {} THEN NoUnit ELSE units[Min(positions)].name

\* the first unit the user has not seen that needs allocation
first_needing(md, user_name) ==
    next_unit(md["units"],
        { i \in 1..Len(md["units"]) :
            /\ md["units"][i].name \notin Range(md["allocations"][user_name])
            /\ needs_allocation(md, md["units"][i].name) })

\* a faulty second search: the test on the user's history is missing
first_unseen_any(md, user_name) ==
    next_unit(md["units"], 1..Len(md["units"]))

\* a faulty second search: the units are walked in reverse
first_unseen_last(md, user_name) ==
    LET positions == { i \in 1..Len(md["units"]) :
                         md["units"][i].name \notin Range(md["allocations"][user_name]) }
    IN IF positions = {} THEN NoUnit
       ELSE md["units"][CHOOSE i \in positions : \A j \in positions : j <= i].name

\* the first unit the user has not seen
first_unseen(md, user_name) ==
    next_unit(md["units"],
        { i \in 1..Len(md["units"]) :
            md["units"][i].name \notin Range(md["allocations"][user_name]) })

\* a faulty selection: when the user has seen every unit it starts over
select_unit_wraps(md, user_name) ==
    IF first_needing(md, user_name) # NoUnit
    THEN first_needing(md, user_name)
    ELSE IF first_unseen(md, user_name) # NoUnit
    THEN first_unseen(md, user_name)
    ELSE IF Len(md["units"]) > 0 THEN md["units"][1].name ELSE NoUnit

\* a faulty selection: the second search is missing
select_unit_needing_only(md, user_name) ==
    first_needing(md, user_name)

\* unit_to_allocate once both searches have run
select_unit(md, user_name) ==
    IF first_needing(md, user_name) # NoUnit
    THEN first_needing(md, user_name)
    ELSE first_unseen(md, user_name)

----------------------------------------------------------------------------
\* add_allocation: copying the unit and recording it.

\* The blob store may fail: fault = 0 is no failure, fault = 1 fails s3.ls,
\* fault = j + 1 fails the j-th s3.copy of the call (if there is one).
\* How many keys are copied before the loop ends or raises:
copied_count(keys, fault) ==
    IF fault = 0 \/ fault > Len(keys) + 1 THEN Len(keys)
    ELSE IF fault = 1 THEN 0 ELSE fault - 2

copy_raises(keys, fault) == fault >= 1 /\ fault <= Len(keys) + 1

\* the store after the loop over s3.ls(source_dir)
copy_unit(store, source_dir, dest_dir, fault) ==
    LET keys == ls(store, source_dir)
    IN store \cup { replace(keys[i], dest_dir) : i \in 1..copied_count(keys, fault) }

\* a faulty add_allocation: the test on the password store is missing
user_unknown_never(pw_store, user_name) == FALSE

\* 'user_name not in self.user_pw_store'
user_unknown(pw_store, user_name) == user_name \notin DOMAIN pw_store

\* a faulty record: the unit is inserted at the front of the list
record_allocation_front(md, user_name, unit_name) ==
    DictSet(md, "allocations",
        DictSet(md["allocations"], user_name,
            <<unit_name>> \o md["allocations"][user_name]))

\* self.metadata['allocations'][user_name].append(unit_to_allocate)
record_allocation(md, user_name, unit_name) ==
    DictSet(md, "allocations",
        DictSet(md["allocations"], user_name,
            Append(md["allocations"][user_name], unit_name)))

Outcome(md, store, outcome, unit) ==
    [metadata |-> md, s3 |-> store, outcome |-> outcome, unit |-> unit]

\* a faulty add_allocation: the unit is appended before its files are copied
add_allocation_record_first(md, pw_store, store, user_name, fault) ==
    IF user_unknown(pw_store, user_name)
    THEN Outcome(md, store, "UnknownUser", NoUnit)
    ELSE
    LET md1 == init_allocations(md, user_name)
    IN IF "units" \notin DOMAIN md1
       THEN Outcome(md1, store, "KeyError", NoUnit)
       ELSE
       LET unit_to_allocate == select_unit(md1, user_name)
       IN IF unit_to_allocate = NoUnit
          THEN Outcome(md1, store, "NoUnitsLeft", NoUnit)
          ELSE
          LET source_dir == unit_path(unit_to_allocate)
              dest_dir == allocation_path(user_name, unit_to_allocate)
              md2 == record_allocation(md1, user_name, unit_to_allocate)
              store1 == copy_unit(store, source_dir, dest_dir, fault)
          IN IF copy_raises(ls(store, source_dir), fault)
             THEN Outcome(md2, store1, "StorageError", NoUnit)
             ELSE Outcome(md2, store1, "ok", unit_to_allocate)

\* add_allocation(user_name): the metadata and blob store it leaves, how it
\* ends and the unit of the directory it returns
add_allocation(md, pw_store, store, user_name, fault) ==
    IF user_unknown(pw_store, user_name)
    THEN Outcome(md, store, "UnknownUser", NoUnit)
    ELSE
    LET md1 == init_allocations(md, user_name)
    IN IF "units" \notin DOMAIN md1
       THEN Outcome(md1, store, "KeyError", NoUnit)
       ELSE
       LET unit_to_allocate == select_unit(md1, user_name)
       IN IF unit_to_allocate = NoUnit
          THEN Outcome(md1, store, "NoUnitsLeft", NoUnit)
          ELSE
          LET source_dir == unit_path(unit_to_allocate)
              dest_dir == allocation_path(user_name, unit_to_allocate)
              store1 == copy_unit(store, source_dir, dest_dir, fault)
          IN IF copy_raises(ls(store, source_dir), fault)
             THEN Outcome(md1, store1, "StorageError", NoUnit)
             ELSE Outcome(record_allocation(md1, user_name, unit_to_allocate),
                          store1, "ok", unit_to_allocate)

\* a faulty add_user: the test on the password store is missing
already_created_never(pw_store, username) == FALSE

\* 'username in self.user_pw_store'
already_created(pw_store, username) == username \in DOMAIN pw_store

----------------------------------------------------------------------------
\* The state machine.

Call(op, user, outcome, unit) ==
    [op |-> op, user |-> user, outcome |-> outcome, unit |-> unit]

Init ==
    /\ metadata = EmptyDict
    /\ user_pw_store = EmptyDict
    /\ s3_metadata = EmptyDict
    /\ s3_user_pws = EmptyDict
    /\ s3 = {}
    /\ last = Call("init", 0, "ok", NoUnit)

\* BratExperiment(experiment_name, brat_s3_path) in a new process: both
\* S3BackedJsonDict objects are built from the JSON stored on S3
Restart ==
    /\ metadata' = s3_metadata
    /\ user_pw_store' = s3_user_pws
    /\ last' = Call("init", 0, "ok", NoUnit)
    /\ UNCHANGED <<s3_metadata, s3_user_pws, s3>>

\* experiment.start(sample, entities, minimum, limit); self.metadata.save()
\* stores the whole in-memory dict
Start(n, minimum, limit) ==
    /\ metadata' = start_metadata(metadata, Sample(n), minimum, limit)
    /\ s3_metadata' = metadata'
    /\ s3' = s3 \cup UnitKeys(metadata'["units"]) \cup ConfigKeys
    /\ last' = Call("start", 0, "ok", NoUnit)
    /\ UNCHANGED <<user_pw_store, s3_user_pws>>

\* a faulty add_user: it returns without calling add_allocation
AddUser_without_allocation(username, password, fault) ==
    IF already_created(user_pw_store, username)
    THEN /\ last' = Call("add_user", username, "AlreadyCreated", NoUnit)
         /\ UNCHANGED <<metadata, user_pw_store, s3_metadata, s3_user_pws, s3>>
    ELSE /\ user_pw_store' = DictSet(user_pw_store, username, password)
         /\ s3_user_pws' = user_pw_store'
         /\ last' = Call("add_user", username, "ok", NoUnit)
         /\ UNCHANGED <<metadata, s3_metadata, s3>>

\* a faulty add_user: the password is taken back when add_allocation fails
AddUser_rollback(username, password, fault) ==
    IF already_created(user_pw_store, username)
    THEN /\ last' = Call("add_user", username, "AlreadyCreated", NoUnit)
         /\ UNCHANGED <<metadata, user_pw_store, s3_metadata, s3_user_pws, s3>>
    ELSE LET pw1 == DictSet(user_pw_store, username, password)
             r == add_allocation(metadata, pw1, s3, username, fault)
             pw2 == IF r.outcome = "ok" THEN pw1 ELSE user_pw_store
         IN /\ user_pw_store' = pw2
            /\ s3_user_pws' = pw2
            /\ metadata' = r.metadata
            /\ s3' = r.s3
            /\ last' = Call("add_user", username, r.outcome, r.unit)
            /\ UNCHANGED <<s3_metadata>>

\* experiment.add_user(username, password); self.user_pw_store.save() stores
\* the in-memory dict, and add_allocation follows
AddUser(username, password, fault) ==
    IF already_created(user_pw_store, username)
    THEN /\ last' = Call("add_user", username, "AlreadyCreated", NoUnit)
         /\ UNCHANGED <<metadata, user_pw_store, s3_metadata, s3_user_pws, s3>>
    ELSE LET pw1 == DictSet(user_pw_store, username, password)
             r == add_allocation(metadata, pw1, s3, username, fault)
         IN /\ user_pw_store' = pw1
            /\ s3_user_pws' = pw1
            /\ metadata' = r.metadata
            /\ s3' = r.s3
            /\ last' = Call("add_user", username, r.outcome, r.unit)
            /\ UNCHANGED <<s3_metadata>>

\* experiment.add_allocation(user_name)
AddAllocation(user_name, fault) ==
    LET r == add_allocation(metadata, user_pw_store, s3, user_name, fault)
    IN /\ metadata' = r.metadata
       /\ s3' = r.s3
       /\ last' = Call("add_allocation", user_name, r.outcome, r.unit)
       /\ UNCHANGED <<user_pw_store, s3_metadata, s3_user_pws>>

Next ==
    \/ Restart
    \/ \E n \in 0..MaxItems, minimum \in 1..MaxCoverage, limit \in 1..MaxUnitSize :
          Start(n, minimum, limit)
    \/ \E username \in Users, password \in Passwords, fault \in 0..MaxFault :
          AddUser(username, password, fault)
    \/ \E user_name \in Users, fault \in 0..MaxFault :
          AddAllocation(user_name, fault)

Spec == Init /\ [][Next]_vars

----------------------------------------------------------------------------
\* What the properties speak of.

\* allocations[worker] of a metadata dict, empty when there is none
History(md, w) ==
    IF "allocations" \in DOMAIN md /\ w \in DOMAIN md["allocations"]
    THEN md["allocations"][w] ELSE <<>>

\* the number of distinct workers whose history contains the unit
Coverage(md, unit_name) ==
    Cardinality({ w \in Users : unit_name \in Range(History(md, w)) })

Started(md) == "units" \in DOMAIN md

\* positions (in creation order) of the units not in the worker's history
Unseen(md, w) ==
    { i \in 1..Len(md["units"]) : md["units"][i].name \notin Range(History(md, w)) }

\* ... and of those among them whose coverage is below the target
UnderCovered(md, w) ==
    { i \in Unseen(md, w) :
        Coverage(md, md["units"][i].name) < md["minimum_annotations_per_posting"] }

\* the step is a call of add_allocation for w: direct, or chained by add_user
Allocates(w) ==
    /\ last'.user = w
    /\ \/ last'.op = "add_allocation" /\ w \in DOMAIN user_pw_store
       \/ last'.op = "add_user" /\ w \notin DOMAIN user_pw_store

NoDuplicates(seq) ==
    \A i, j \in 1..Len(seq) : i # j => seq[i] # seq[j]

----------------------------------------------------------------------------
\* C1: no worker's history, in memory or stored, ever holds a unit name
\* twice, whatever calls of add_user and add_allocation, successful or
\* failing, came before; and a call that hands out a unit hands out one that
\* was not in the worker's history.
C1_NoDuplicateUnits ==
    /\ [](\A w \in Users :
            /\ NoDuplicates(History(metadata, w))
            /\ NoDuplicates(History(s3_metadata, w)))
    /\ [][\A w \in Users :
            (Allocates(w) /\ last'.outcome = "ok")
            => last'.unit \notin Range(History(metadata, w))]_vars

\* a worker has been handed a second unit, and a later call for it failed
C1_Witness ==
    /\ last.op = "add_allocation"
    /\ last.outcome = "NoUnitsLeft"
    /\ Len(History(metadata, last.user)) = 2

\* C2: when a registered worker asks for a unit and some unit outside its
\* history has coverage below the target (counted over all histories when
\* the call is made), the call does not end with 'no units left', and the
\* unit it hands out is the first such unit in creation order, which is then
\* the last entry of the worker's history.
C2_UnderCoveredFirst ==
    [][\A w \in Users :
          (Allocates(w) /\ Started(metadata) /\ UnderCovered(metadata, w) # {})
          => /\ last'.outcome \in {"ok", "StorageError"}
             /\ last'.outcome = "ok" =>
                  /\ last'.unit = metadata["units"][Min(UnderCovered(metadata, w))].name
                  /\ History(metadata', w) = Append(History(metadata, w), last'.unit)]_vars

\* a worker was handed unit_1 while unit_0, which it has not seen, already
\* met the coverage target
C2_Witness ==
    /\ last.op = "add_user"
    /\ last.outcome = "ok"
    /\ last.unit = 1
    /\ Coverage(metadata, 0) >= metadata["minimum_annotations_per_posting"]
    /\ History(metadata, last.user) = <<1>>

\* C3: when a registered worker asks for a unit and every unit outside its
\* history already meets the coverage target, the unit handed out is the
\* first unit in creation order outside its history.
C3_FirstUnseen ==
    [][\A w \in Users :
          (Allocates(w) /\ Started(metadata)
             /\ Unseen(metadata, w) # {} /\ UnderCovered(metadata, w) = {})
          => /\ last'.outcome \in {"ok", "StorageError"}
             /\ last'.outcome = "ok" =>
                  /\ last'.unit = metadata["units"][Min(Unseen(metadata, w))].name
                  /\ History(metadata', w) = Append(History(metadata, w), last'.unit)]_vars

\* a worker was handed unit_0 although unit_0 and unit_1 both met the
\* coverage target before the call
C3_Witness ==
    /\ last.op = "add_allocation"
    /\ last.outcome = "ok"
    /\ last.unit = 0
    /\ Started(metadata)
    /\ Len(metadata["units"]) = 2
    /\ History(metadata, last.user) = <<0>>
    /\ Coverage(metadata, 0) > metadata["minimum_annotations_per_posting"]
    /\ Coverage(metadata, 1) >= metadata["minimum_annotations_per_posting"]

\* the worker is registered and every unit is in its history
SeenAll(md, pw_store, w) ==
    /\ w \in DOMAIN pw_store
    /\ Started(md)
    /\ Unseen(md, w) = {}

\* how many entries of the history are units of the experiment
UnitEntries(md, w) ==
    Cardinality({ j \in 1..Len(History(md, w)) :
        \E i \in 1..Len(md["units"]) : md["units"][i].name = History(md, w)[j] })

\* C4: once a registered worker's history contains every unit, no call of
\* add_user or add_allocation, by this worker or another, changes its
\* history or ends that condition, and each add_allocation for it fails
\* with 'No units left to allocate to user!'.
C4_ExhaustionStable ==
    [][\A w \in Users :
          (SeenAll(metadata, user_pw_store, w)
             /\ last'.op \in {"add_user", "add_allocation"})
          => /\ SeenAll(metadata', user_pw_store', w)
             /\ History(metadata', w) = History(metadata, w)
             /\ (last'.op = "add_allocation" /\ last'.user = w)
                  => last'.outcome = "NoUnitsLeft"]_vars

\* a worker that holds both units was refused while the other worker, still
\* short of a unit, had been served in between
C4_Witness ==
    /\ last.op = "add_allocation"
    /\ last.outcome = "NoUnitsLeft"
    /\ Started(metadata)
    /\ Len(metadata["units"]) = 2
    /\ \E v \in Users \ {last.user} : Len(History(metadata, v)) = 1

\* C5: add_allocation ends with 'no units left' only for a registered worker
\* whose history holds every unit, each unit once; a registered worker whose
\* history lacks a unit is never refused that way, and absent a blob-store
\* failure it is handed a unit outside its history, also when every unit
\* already meets the coverage target.
C5_RefusedOnlyWhenSeenAll ==
    /\ [](last.outcome = "NoUnitsLeft" =>
            /\ SeenAll(metadata, user_pw_store, last.user)
            /\ UnitEntries(metadata, last.user) = Len(metadata["units"]))
    /\ [][\A w \in Users :
            (Allocates(w) /\ Started(metadata) /\ Unseen(metadata, w) # {})
            => /\ last'.outcome \in {"ok", "StorageError"}
               /\ last'.outcome = "ok" =>
                    \E i \in Unseen(metadata, w) : metadata["units"][i].name = last'.unit
               /\ (AddAllocation(w, 0) \/ \E p \in Passwords : AddUser(w, p, 0))
                    => last'.outcome = "ok"]_vars

\* a worker was handed unit_1, then unit_0 which already met the target, and
\* only then refused
C5_Witness ==
    /\ last.op = "add_allocation"
    /\ last.outcome = "NoUnitsLeft"
    /\ History(metadata, last.user) = <<1, 0>>
    /\ Len(metadata["units"]) = 2

\* the unit the selection policy picks for worker w
PolicyChoice(md, w) ==
    IF UnderCovered(md, w) # {}
    THEN md["units"][Min(UnderCovered(md, w))].name
    ELSE md["units"][Min(Unseen(md, w))].name

\* C6: add_user for a new user name stores and saves the password; when it
\* succeeds, the user's history has exactly one entry, the unit the selection
\* policy picks for an empty history; and it does succeed when at least one
\* unit exists and the blob store does not fail.
C6_RegistrationAllocatesOnce ==
    [][\A w \in Users :
          (last'.op = "add_user" /\ last'.user = w /\ w \notin DOMAIN user_pw_store)
          => /\ w \in DOMAIN user_pw_store'
             /\ s3_user_pws' = user_pw_store'
             /\ \A p \in Passwords : AddUser(w, p, 0) => user_pw_store'[w] = p
             /\ last'.outcome = "ok" =>
                  /\ Started(metadata)
                  /\ Len(metadata["units"]) >= 1
                  /\ History(metadata, w) = <<>>
                  /\ History(metadata', w) = <<PolicyChoice(metadata, w)>>
                  /\ last'.unit = PolicyChoice(metadata, w)
             /\ ( /\ Started(metadata)
                  /\ Len(metadata["units"]) >= 1
                  /\ \E p \in Passwords : AddUser(w, p, 0) )
                  => last'.outcome = "ok"]_vars

\* a second user has just been registered and holds exactly one unit
C6_Witness ==
    /\ last.op = "add_user"
    /\ last.outcome = "ok"
    /\ Len(History(metadata, last.user)) = 1
    /\ \E v \in Users \ {last.user} : Len(History(metadata, v)) >= 1

\* C7: add_allocation for a user name that is not in the password store ends
\* with the unknown-user error and changes neither the metadata, nor the
\* password store, nor the blob store; and every key of 'allocations', in
\* memory or stored, is a user of the password store.
C7_UnknownUserChangesNothing ==
    /\ [](\A w \in Users :
            (  ("allocations" \in DOMAIN metadata
                   /\ w \in DOMAIN metadata["allocations"])
            \/ ("allocations" \in DOMAIN s3_metadata
                   /\ w \in DOMAIN s3_metadata["allocations"]) )
            => w \in DOMAIN user_pw_store /\ w \in DOMAIN s3_user_pws)
    /\ [][\A w \in Users :
            (last'.op = "add_allocation" /\ last'.user = w
               /\ w \notin DOMAIN user_pw_store)
            => /\ last'.outcome = "UnknownUser"
               /\ UNCHANGED <<metadata, user_pw_store, s3_metadata, s3_user_pws, s3>>]_vars

\* an unregistered user was refused in a started experiment that has another
\* user with an allocation
C7_Witness ==
    /\ last.op = "add_allocation"
    /\ last.outcome = "UnknownUser"
    /\ Started(metadata)
    /\ \E v \in Users \ {last.user} : Len(History(metadata, v)) >= 1

\* C8: add_user for a user name already in the password store ends with the
\* already-created error and changes nothing: not the stored password, not
\* any allocation history, not the blob store.
C8_DuplicateUserChangesNothing ==
    [][\A w \in Users :
          (last'.op = "add_user" /\ last'.user = w /\ w \in DOMAIN user_pw_store)
          => /\ last'.outcome = "AlreadyCreated"
             /\ UNCHANGED <<metadata, user_pw_store, s3_metadata, s3_user_pws, s3>>]_vars

\* a user that holds a unit was registered a second time
C8_Witness ==
    /\ last.op = "add_user"
    /\ last.outcome = "AlreadyCreated"
    /\ Len(History(metadata, last.user)) >= 1

\* C9: after a successful allocation of unit u to worker w the stored
\* metadata records u in allocations[w].
C9_AllocationStored ==
    (last.op \in {"add_user", "add_allocation"} /\ last.outcome = "ok")
    => last.unit \in Range(History(s3_metadata, last.user))

\* C10: start on an experiment whose metadata already has units ends with
\* the already-started error and leaves metadata and blob store unchanged.
C10_SecondStartRefused ==
    [][(last'.op = "start" /\ Started(metadata))
          => /\ last'.outcome = "AlreadyStarted"
             /\ UNCHANGED <<metadata, s3_metadata, s3>>]_vars

\* every unit name that a history or the unit set holds
KnownUnits(md) ==
    UNION { Range(History(md, w)) : w \in Users }
      \cup (IF Started(md) THEN { md["units"][i].name : i \in 1..Len(md["units"]) }
            ELSE {})

\* needs_more_coverage: the coverage of the unit is below the target
NeedsMoreCoverage(md, unit_name) ==
    Coverage(md, unit_name) < md["minimum_annotations_per_posting"]

\* C11: over every step of the experiment the coverage of a unit never
\* decreases, and a unit whose coverage has reached the target does not need
\* more coverage in the next state either.
C11_CoverageMonotonic ==
    [][\A u \in KnownUnits(metadata) :
          /\ Coverage(metadata', u) >= Coverage(metadata, u)
          /\ (Started(metadata) /\ ~NeedsMoreCoverage(metadata, u))
               => (Started(metadata') /\ ~NeedsMoreCoverage(metadata', u))]_vars

\* the part of the metadata that is not 'allocations'
Configuration(md) ==
    [k \in DOMAIN md \ {"allocations"} |-> md[k]]

IsPrefix(short, long) ==
    /\ Len(short) <= Len(long)
    /\ SubSeq(long, 1, Len(short)) = short

\* C12: a call of add_user or add_allocation leaves the unit set and the
\* configuration alone and keeps every history as a prefix of what it
\* becomes; a successful call for w appends exactly the unit it hands out
\* to the end of w's history and leaves every other history as it was, and a
\* failing call leaves every history as it was.
C12_AppendOnly ==
    [][\A w \in Users :
          (last'.op \in {"add_user", "add_allocation"} /\ last'.user = w)
          => /\ Configuration(metadata') = Configuration(metadata)
             /\ \A v \in Users : IsPrefix(History(metadata, v), History(metadata', v))
             /\ \A v \in Users \ {w} : History(metadata', v) = History(metadata, v)
             /\ History(metadata', w) =
                  IF last'.outcome = "ok"
                  THEN Append(History(metadata, w), last'.unit)
                  ELSE History(metadata, w)]_vars

\* a worker that already held a unit was handed a second one while another
\* worker held a unit too
C12_Witness ==
    /\ last.op = "add_allocation"
    /\ last.outcome = "ok"
    /\ Len(History(metadata, last.user)) = 2
    /\ History(metadata, last.user)[2] = last.unit
    /\ \E v \in Users \ {last.user} : Len(History(metadata, v)) >= 1

----------------------------------------------------------------------------
\* start alone, over samples and unit sizes large enough for several units
\* of several postings.

PartitionNext ==
    \E n \in 0..MaxSampleSize, minimum \in 1..MaxCoverage, limit \in 1..MaxLimit :
        Start(n, minimum, limit)

PartitionSpec == Init /\ [][PartitionNext]_vars

\* ceil(n / limit)
CeilDiv(n, limit) == (n + limit - 1) \div limit

\* C13: start over N >= 1 postings with unit size S >= 1 leaves exactly
\* ceil(N/S) units; every unit but the last has S members and the last has
\* N mod S members, or S when N mod S = 0.
C13_UnitCountAndSizes ==
    [][\A n \in 1..MaxSampleSize :
          Start(n, metadata'["minimum_annotations_per_posting"],
                   metadata'["max_postings_per_allocation"])
          => LET units == metadata'["units"]
                 limit == metadata'["max_postings_per_allocation"]
             IN /\ Len(units) = CeilDiv(n, limit)
                /\ \A b \in 1..(Len(units) - 1) : Len(units[b].members) = limit
                /\ Len(units[Len(units)].members) =
                     IF n % limit = 0 THEN limit ELSE n % limit]_vars

\* several units, the last of them shorter than the unit size
C13_Witness ==
    /\ last.op = "start"
    /\ Len(metadata["units"]) >= 2
    /\ Len(metadata["units"][Len(metadata["units"])].members)
         < metadata["max_postings_per_allocation"]
    /\ Len(metadata["units"][1].members) >= 2

\* the external ids of the members of all units, in creation order
RECURSIVE Concatenated(_)
Concatenated(units) ==
    IF Len(units) = 0 THEN <<>>
    ELSE [j \in 1..Len(units[1].members) |-> units[1].members[j][2]]
           \o Concatenated(Tail(units))

\* C14: after start the units are named unit_0, unit_1, ... in creation
\* order, the members of each unit carry local_index 0..n-1 in order, every
\* posting of the sample is a member of exactly one unit, and the external
\* ids of all members in creation order are the sample in its order.
C14_OrderAndIdentity ==
    [][\A n \in 0..MaxSampleSize :
          Start(n, metadata'["minimum_annotations_per_posting"],
                   metadata'["max_postings_per_allocation"])
          => LET units == metadata'["units"]
             IN /\ \A b \in 1..Len(units) : units[b].name = b - 1
                /\ \A b \in 1..Len(units) : \A j \in 1..Len(units[b].members) :
                       units[b].members[j][1] = j - 1
                /\ \A i \in 1..n :
                       Cardinality({ <<b, j>> \in (1..Len(units)) \X (1..n) :
                                       /\ j <= Len(units[b].members)
                                       /\ units[b].members[j][2] = Sample(n)[i] }) = 1
                /\ Concatenated(units) = Sample(n)]_vars

\* three units, the second of them with two postings or more
C14_Witness ==
    /\ last.op = "start"
    /\ Len(metadata["units"]) >= 3
    /\ Len(metadata["units"][2].members) >= 2

\* C15: start over an empty sample fails with the configuration error,
\* records no unit and writes nothing to the store.
C15_EmptySampleRefused ==
    [][\A minimum \in 1..MaxCoverage, limit \in 1..MaxLimit :
          Start(0, minimum, limit)
          => /\ last'.outcome = "ConfigurationError"
             /\ UNCHANGED <<metadata, s3_metadata, s3>>]_vars

----------------------------------------------------------------------------
\* one experiment object that is never reloaded, with units of several
\* postings.

DeliveryNext ==
    \/ \E n \in 0..MaxItems, minimum \in 1..MaxCoverage, limit \in 1..MaxItems :
           Start(n, minimum, limit)
    \/ \E username \in Users, fault \in 0..MaxCopyFault :
           AddUser(username, "password", fault)
    \/ \E user_name \in Users, fault \in 0..MaxCopyFault :
           AddAllocation(user_name, fault)

DeliverySpec == Init /\ [][DeliveryNext]_vars

\* the directory of user_name's copy of unit_name holds a copy of every file
\* of the unit's directory
Delivered(store, user_name, unit_name) ==
    \A key \in Range(ls(store, unit_path(unit_name))) :
        replace(key, allocation_path(user_name, unit_name)) \in store

\* C16: in every state, for every worker w and every unit u of w's history,
\* the directory of w's copy of u holds a copy of every file of u's directory.
C16_RecordedImpliesDelivered ==
    \A w \in Users : \A u \in Range(History(metadata, w)) :
        Delivered(s3, w, u)

\* the original statement of C17: a call of add_allocation that ends with a
\* blob-store failure has appended the unit to the worker's history before
\* the copy, so the history is one entry longer although the files were not
\* delivered.
C17_CommitThenCopy ==
    [][\A w \in Users :
          (Allocates(w) /\ last'.outcome = "StorageError")
          => Len(History(metadata', w)) = Len(History(metadata, w)) + 1]_vars

\* the files of the store under user_name's copy of unit_name
CopyKeys(store, user_name, unit_name) ==
    Range(ls(store, allocation_path(user_name, unit_name)))

\* C17 (amended): add_allocation copies the files of the unit first and
\* appends the unit to the history only after the last copy.  A call that
\* ends with a blob-store failure leaves every history as it was and removes
\* nothing from the store: what it leaves there are the copies made before
\* the failure, of the first files of the selected unit in listing order and
\* not of all of them, in the worker's directory of that unit.  A call that
\* hands out a unit has copied every file of the unit.
C17_CopyThenAppend ==
    [][\A w \in Users :
          Allocates(w)
          => /\ last'.outcome = "StorageError" =>
                  /\ \A v \in Users : History(metadata', v) = History(metadata, v)
                  /\ s3 \subseteq s3'
                  /\ Started(metadata) /\ Unseen(metadata, w) # {}
                  /\ LET u == PolicyChoice(metadata, w)
                         keys == ls(s3, unit_path(u))
                     IN \E copied \in 0..(Len(keys) - 1) :
                           s3' = s3 \cup { replace(keys[i], allocation_path(w, u)) :
                                             i \in 1..copied }
             /\ last'.outcome = "ok" =>
                  /\ History(metadata', w) = Append(History(metadata, w), last'.unit)
                  /\ Delivered(s3', w, last'.unit)]_vars

\* a copy failed after a part of the unit's files had been copied: the
\* worker's directory of the unit holds files, while the worker's history
\* does not name the unit
C17_Witness ==
    /\ last.op = "add_allocation"
    /\ last.outcome = "StorageError"
    /\ \E i \in 1..Len(metadata["units"]) :
          LET u == metadata["units"][i].name
          IN /\ u \notin Range(History(metadata, last.user))
             /\ CopyKeys(s3, last.user, u) # {}
             /\ ~Delivered(s3, last.user, u)

\* C18: when the calls of one experiment are serialized, each of them
\* running on the metadata its process has loaded, no worker is handed the
\* same unit twice: a call that hands unit u to worker w does not find u
\* delivered to w by an earlier call.
C18_SerializedNeverRepeats ==
    [][\A w \in Users :
          (Allocates(w) /\ last'.outcome = "ok")
          => ~Delivered(s3, w, last'.unit)]_vars

----------------------------------------------------------------------------
\* The experiment is started once, on a sample that is not empty; any
\* process may be replaced by a new one; every worker keeps calling
\* add_allocation, and of the calls of a worker one eventually meets a blob
\* store that does not fail.

LiveNext ==
    \/ Restart
    \/ \E n \in 1..MaxItems, minimum \in 1..MaxCoverage :
           ~Started(metadata) /\ Start(n, minimum, 1)
    \/ \E username \in Users : AddUser(username, "password", 0)
    \/ \E user_name \in Users, fault \in 0..1 : AddAllocation(user_name, fault)

\* a call of add_allocation for worker w that hands out a unit
Served(w) ==
    /\ w \in DOMAIN user_pw_store
    /\ Started(metadata)
    /\ \E u \in { metadata["units"][i].name : i \in Unseen(metadata, w) } :
          /\ metadata' = record_allocation(init_allocations(metadata, w), w, u)
          /\ s3' = s3 \cup { replace(key, allocation_path(w, u)) :
                               key \in { k \in s3 : k.owner = 0 /\ k.unit = u } }
          /\ last' = Call("add_allocation", w, "ok", u)
          /\ UNCHANGED <<user_pw_store, s3_metadata, s3_user_pws>>

LiveSpec == Init /\ [][LiveNext]_vars /\ \A w \in Users : WF_vars(Served(w))

\* every unit has reached the coverage target
AllCovered(md) ==
    /\ Started(md)
    /\ \A i \in 1..Len(md["units"]) :
          Coverage(md, md["units"][i].name) >= md["minimum_annotations_per_posting"]

\* a non-empty unit set and at least minimum_annotations_per_posting
\* registered workers
CanBeCovered(md, pw_store) ==
    /\ Started(md)
    /\ Len(md["units"]) >= 1
    /\ Cardinality(DOMAIN pw_store) >= md["minimum_annotations_per_posting"]

\* C19: from a state with a non-empty unit set and at least
\* minimum_annotations_per_posting registered workers, when every registered
\* worker keeps calling add_allocation, a state is eventually reached where
\* every unit has coverage >= minimum_annotations_per_posting.
C19_CoverageEventuallyReached ==
    CanBeCovered(metadata, user_pw_store) ~> AllCovered(metadata)

----------------------------------------------------------------------------
\* the chained add_allocation of add_user has failed
RegistrationFailed(outcome) ==
    outcome \in {"KeyError", "NoUnitsLeft", "StorageError"}

\* C20: when add_user has stored the password of a new user and its chained
\* add_allocation then fails, the user stays in the password store, in
\* memory and stored, with an empty history; and for a user left that way a
\* repeated add_user ends with the duplicate-user error and changes nothing,
\* while add_allocation is not refused as an unknown user.
C20_RegistrationNotRolledBack ==
    [][\A w \in Users :
          /\ ( /\ last'.op = "add_user" /\ last'.user = w
               /\ w \notin DOMAIN user_pw_store
               /\ RegistrationFailed(last'.outcome) )
             => /\ w \in DOMAIN user_pw_store'
                /\ w \in DOMAIN s3_user_pws'
                /\ History(metadata', w) = <<>>
          /\ ( /\ w \in DOMAIN user_pw_store
               /\ History(metadata, w) = <<>> )
             => /\ w \in DOMAIN user_pw_store'
                /\ (last'.op = "add_user" /\ last'.user = w)
                     => /\ last'.outcome = "AlreadyCreated"
                        /\ UNCHANGED <<metadata, user_pw_store, s3_metadata,
                                       s3_user_pws, s3>>
                /\ (last'.op = "add_allocation" /\ last'.user = w)
                     => last'.outcome # "UnknownUser"]_vars

\* the chained allocation of a registration failed in the blob store while a
\* unit was there to hand out, and the user is registered with an empty
\* history
C20_Witness ==
    /\ last.op = "add_user"
    /\ last.outcome = "StorageError"
    /\ Started(metadata)
    /\ Unseen(metadata, last.user) # {}
    /\ last.user \in DOMAIN user_pw_store
    /\ last.user \in DOMAIN s3_user_pws
    /\ History(metadata, last.user) = <<>>

====
